---------------------------- MODULE Spec2Model ----------------------------
(***************************************************************************)
(* A model of trackingValidation.py: the command line intake, the two     *)
(* release-validation passes (tracking, HGCAL), ValidPlotter (directory   *)
(* handling, ratioHist, plotHistos) and getEfficiency.                    *)
(*                                                                         *)
(* Strings are sequences of tokens: "/" and "," are the separators, every *)
(* other token is an indivisible piece of text.  Floating point numbers   *)
(* are exact rationals extended with NaN, +/-infinity and the irrational  *)
(* square roots numpy.sqrt produces.                                       *)
(***************************************************************************)
EXTENDS Integers, Sequences, FiniteSets, TLC

VARIABLES
    pc,         \* position of the script: see the actions below
    args,       \* argparse namespace: files, labels, tag, odir
    files,      \* list of input paths (line 314-315)
    labels,     \* list of display labels (line 316-320)
    opened,     \* sequence of the paths handed to uproot.open so far
    dqm_paths,  \* ordered dict label -> file, as a sequence of [label, file]
    histos,     \* per key of dqm_paths, the histogram read from its file
    savedir,    \* ValidPlotter.savedir of the current plotter
    dirs,       \* directories that exist (absolute, as component sequences)
    coll_i,     \* index of the collection the nested loop is at
    name_i,     \* index of the histogram name the plotting loop is at
    lastPlot,   \* what the last plotHistos call did
    rcall,      \* a call of ValidPlotter.ratioHist: arguments and result
    ecall       \* a call of getEfficiency: arguments, loop position, lists

vars == <<pc, args, files, labels, opened, dqm_paths, histos, savedir, dirs,
          coll_i, name_i, lastPlot, rcall, ecall>>

runVars == <<pc, args, files, labels, opened, dqm_paths, histos, savedir,
             dirs, coll_i, name_i, lastPlot>>

---------------------------------------------------------------------------
(* Bounds of the model *)

\* number of bins of the histograms handed to ratioHist directly
NBins == 1
\* bin values range over -MaxAbsVal .. MaxAbsVal
MaxAbsVal == 2
\* bin variances range over 0 .. MaxVar
MaxVar == 1
\* getEfficiency: number of bins of passing and total
MaxLen == 3
\* getEfficiency: counts range over 0 .. MaxCount
MaxCount == 2
\* number of comma-separated input files
MaxFiles == 3
\* number of tokens of the --labels string
MaxLabelsLen == 4

---------------------------------------------------------------------------
(* numpy float arithmetic *)

RECURSIVE GCD(_, _)
GCD(a, b) == IF b = 0 THEN a ELSE GCD(b, a % b)

IAbs(x) == IF x < 0 THEN -x ELSE x

NaN == [k |-> "nan", n |-> 0, d |-> 0]
Inf(s) == [k |-> "inf", n |-> s, d |-> 0]

\* the rational n/d (d # 0) in lowest terms, the sign carried by n
Fin(n, d) ==
    LET g == GCD(IAbs(n), IAbs(d))
        s == IF d < 0 THEN -1 ELSE 1
    IN  [k |-> "fin", n |-> (s * n) \div g, d |-> IAbs(d) \div g]

Num(i) == Fin(i, 1)

Sign(x) == IF x.n < 0 THEN -1 ELSE IF x.n > 0 THEN 1 ELSE 0

\* integer square root: the largest r with r*r <= m
ISqrt(m) == CHOOSE r \in 0..m : r * r <= m /\ (r + 1) * (r + 1) > m

IsSquare(m) == ISqrt(m) * ISqrt(m) = m

\* the irrational number sqrt(n/d), n/d > 0 in lowest terms and no square
Root(n, d) == [k |-> "root", n |-> n, d |-> d]

\* x / y of numpy on float64 under errstate(divide='ignore', invalid='ignore')
FDiv(x, y) ==
    CASE x.k = "nan" \/ y.k = "nan" -> NaN
      [] x.k = "inf" /\ y.k = "inf" -> NaN
      [] x.k = "inf" -> Inf(IF Sign(y) < 0 THEN -x.n ELSE x.n)
      [] y.k = "inf" -> Num(0)
      [] y.n = 0 /\ x.n = 0 -> NaN
      [] y.n = 0 -> Inf(Sign(x))
      [] OTHER -> Fin(x.n * y.d, x.d * y.n)

\* x ** 2
FSq(x) ==
    CASE x.k = "nan" -> NaN
      [] x.k = "inf" -> Inf(1)
      [] x.k = "root" -> Fin(x.n, x.d)
      [] OTHER -> Fin(x.n * x.n, x.d * x.d)

\* x + y, for rationals, infinities and NaN
FAdd(x, y) ==
    CASE x.k = "nan" \/ y.k = "nan" -> NaN
      [] x.k = "inf" /\ y.k = "inf" -> IF x.n = y.n THEN x ELSE NaN
      [] x.k = "inf" -> x
      [] y.k = "inf" -> y
      [] OTHER -> Fin(x.n * y.d + y.n * x.d, x.d * y.d)

\* numpy.sqrt
FSqrt(x) ==
    CASE x.k = "nan" -> NaN
      [] x.k = "inf" -> IF x.n > 0 THEN x ELSE NaN
      [] x.n < 0 -> NaN
      [] IsSquare(x.n) /\ IsSquare(x.d) -> Fin(ISqrt(x.n), ISqrt(x.d))
      [] OTHER -> Root(x.n, x.d)

\* numpy.abs
FAbs(x) ==
    CASE x.k = "nan" -> NaN
      [] x.k = "inf" -> Inf(1)
      [] OTHER -> [x EXCEPT !.n = IAbs(x.n)]

\* x * y, x rational, infinite or NaN, y the result of FSqrt
FMul(x, y) ==
    CASE x.k = "nan" \/ y.k = "nan" -> NaN
      [] x.k = "inf" -> IF y.n = 0 THEN NaN ELSE Inf(x.n * Sign(y))
      [] y.k = "inf" -> IF x.n = 0 THEN NaN ELSE Inf(y.n * Sign(x))
      [] y.k = "root" -> IF x.n = 0 THEN Num(0)
                         ELSE LET q == Fin(x.n * x.n * y.n, x.d * x.d * y.d)
                              IN  Root(q.n, q.d)
      [] OTHER -> Fin(x.n * y.n, x.d * y.d)

IsZero(x) == x.k = "fin" /\ x.n = 0

---------------------------------------------------------------------------
(* Histograms: a sequence of bins, each a value and a variance *)

Bin(v, w) == [value |-> Num(v), variance |-> Num(w)]

BinSet == {Bin(v, w) : v \in (-MaxAbsVal)..MaxAbsVal, w \in 0..MaxVar}

HistSet == [1..NBins -> BinSet]

values(h) == [b \in DOMAIN h |-> h[b].value]

variances(h) == [b \in DOMAIN h |-> h[b].variance]

\* ValidPlotter._div on two arrays of the same length
Div(num, den) == [b \in DOMAIN num |-> FDiv(num[b], den[b])]

\* ratioHist with the quadrature sum left out of the variance
RatioHistNoQuadrature(num, den) ==
    [b \in DOMAIN num |->
        [value    |-> Div(values(num), values(den))[b],
         variance |-> FAbs(Div(values(num), values(den))[b])]]

\* ratioHist with zero-denominator bins set to 0 (numpy.nan_to_num style)
RatioHistZeroFill(num, den) ==
    [b \in DOMAIN num |->
        IF IsZero(values(den)[b])
        THEN [value |-> Num(0), variance |-> Num(0)]
        ELSE [value    |-> Div(values(num), values(den))[b],
              variance |-> FMul(FAbs(Div(values(num), values(den))[b]),
                                FSqrt(FAdd(FSq(Div(variances(num), values(num))[b]),
                                           FSq(Div(variances(den), values(den))[b]))))]]

\* ValidPlotter.ratioHist, on histograms whose storage carries a value and a
\* variance per bin; the result is the copy of num with both arrays rewritten
ratioHist(num, den) ==
    LET upvals == values(num)
        upvars == variances(num)
        dovals == values(den)
        dovars == variances(den)
    IN  [b \in DOMAIN num |->
            [value    |-> Div(upvals, dovals)[b],
             variance |-> FMul(FAbs(Div(upvals, dovals)[b]),
                               FSqrt(FAdd(FSq(Div(upvars, upvals)[b]),
                                          FSq(Div(dovars, dovals)[b]))))]]

---------------------------------------------------------------------------
(* Strings, paths and the file system *)

RECURSIVE Join(_, _)
\* sep.join(parts)
Join(parts, sep) ==
    IF Len(parts) = 0 THEN <<>>
    ELSE IF Len(parts) = 1 THEN parts[1]
    ELSE parts[1] \o <<sep>> \o Join(Tail(parts), sep)

RECURSIVE Split(_, _)
\* str.split(sep): the pieces between the separators, empty pieces kept
Split(s, sep) ==
    IF \A i \in 1..Len(s) : s[i] # sep THEN <<s>>
    ELSE LET k == CHOOSE i \in 1..Len(s) :
                      s[i] = sep /\ \A j \in 1..(i - 1) : s[j] # sep
         IN  <<SubSeq(s, 1, k - 1)>> \o Split(SubSeq(s, k + 1, Len(s)), sep)

Contains(s, tok) == \E i \in 1..Len(s) : s[i] = tok

EndsWith(s, tok) == Len(s) > 0 /\ s[Len(s)] = tok

RECURSIVE DropEmpty(_)
DropEmpty(parts) ==
    IF Len(parts) = 0 THEN <<>>
    ELSE IF Head(parts) = <<>> THEN DropEmpty(Tail(parts))
    ELSE <<Head(parts)>> \o DropEmpty(Tail(parts))

RECURSIVE Str(_)
\* str(i) for an integer i >= 0
Str(i) ==
    LET digits == <<"0", "1", "2", "3", "4", "5", "6", "7", "8", "9">>
    IN  IF i < 10 THEN <<digits[i + 1]>>
        ELSE Str(i \div 10) \o <<digits[(i % 10) + 1]>>

\* os.getcwd()
cwd == <<"/", "w">>

\* the components of a path, separators and empty components removed
Components(path) == DropEmpty(Split(path, "/"))

\* the absolute location a path names, as a sequence of components
AbsPath(path) ==
    IF Len(path) > 0 /\ path[1] = "/" THEN Components(path)
    ELSE Components(cwd) \o Components(path)

\* the directory holding the file a path names
DirOf(path) == SubSeq(AbsPath(path), 1, Len(AbsPath(path)) - 1)

Prefixes(comps) == {SubSeq(comps, 1, n) : n \in 0..Len(comps)}

\* os.path.join(a, b)
PathJoin(a, b) ==
    IF Len(b) > 0 /\ b[1] = "/" THEN b
    ELSE IF Len(a) = 0 \/ EndsWith(a, "/") THEN a \o b
    ELSE a \o <<"/">> \o b

\* makedir(path): the directories that exist afterwards
makedir(ds, path) ==
    IF AbsPath(path) \in ds THEN ds ELSE ds \cup Prefixes(AbsPath(path))

\* ValidPlotter.__init__: self.savedir
Savedir(odir_given, odir, tag) ==
    IF odir_given /\ odir # <<>> THEN odir
    ELSE cwd \o <<"/", "Plots_">> \o tag \o <<"/">>

---------------------------------------------------------------------------
(* The histogram names the two passes plot *)

\* trackReleaseValidation: trackCollections.values()
trackCollections ==
    << <<"hltGeneral_hltAssociatorByHits">>,
       <<"hltPhase2Pixel_hltAssociatorByHits">> >>

\* trackReleaseValidation: names_level0
trackNamesLevel0 ==
    << <<"globalEfficiencies">>, <<"effic_vs_coll">>,
       <<"fakerate_vs_coll">>, <<"pileuprate_coll">>,
       <<"num_assoc(simToReco)_coll">>, <<"num_assoc(recoToSim)_coll">> >>

\* trackReleaseValidation: names_nested.keys(), the same for every collection
trackNamesNested(coll) ==
    << <<"effic_vs_dz">>, <<"effic_vs_dxy">>, <<"effic_vs_hit">>,
       <<"effic_vs_phi">>, <<"effic">>, <<"efficPt">>,
       <<"fakerate_vs_dz">>, <<"fakerate_vs_dxy">>, <<"fakerate_vs_dr">>,
       <<"fakerate_vs_hit">>, <<"fakerate_vs_phi">>, <<"fakeratePt">>,
       <<"duplicatesRate_dz">>, <<"duplicatesRate_dxy">>,
       <<"duplicatesRate_dr">>, <<"duplicatesRate_hit">>,
       <<"duplicatesRate_phi">>, <<"duplicatesRate_Pt">> >>

\* hgcalReleaseValidation: hgcalCollections.values()
hgcalCollections ==
    << <<"electrons">>, <<"photons">>, <<"muons">>,
       <<"neutral_pions">>, <<"charged_hadrons">>, <<"neutral_hadrons">> >>

\* hgcalReleaseValidation: names_level0
hgcalNamesLevel0 ==
    << <<"Candidates PDG Id">>, <<"Candidates charge">>, <<"Candidates pT">>,
       <<"Candidates raw energy">>, <<"Candidates regressed energy">>,
       <<"Candidates type">>, <<"N of tracksters in candidate">> >>

\* hgcalReleaseValidation: axes.keys()
hgcalAxes == <<"energy", "pt", "eta", "phi">>

\* hgcalReleaseValidation: metrics.keys()
hgcalMetrics == <<"eff", "fake">>

\* hgcalReleaseValidation: the names one metric adds to names_nested_coll
hgcalMetricNames(metric, coll) ==
    LET stepNames(step) ==
            [a \in 1..Len(hgcalAxes) |->
                <<metric, "_">> \o coll \o <<"_", step, "_", hgcalAxes[a]>>]
        charged == coll \in {<<"electrons">>, <<"muons">>, <<"charged_hadrons">>}
    IN  stepNames("energy") \o stepNames("pid")
            \o (IF charged THEN stepNames("track") ELSE <<>>)

\* hgcalReleaseValidation: names_nested[coll].keys()
hgcalNamesNested(coll) ==
    hgcalMetricNames(hgcalMetrics[1], coll) \o hgcalMetricNames(hgcalMetrics[2], coll)

---------------------------------------------------------------------------
(* plotHistos *)

\* the histograms a file may hold under one name
SampleHists ==
    { <<Bin(0, 0), Bin(0, 0)>>,      \* empty
      <<Bin(1, 1), Bin(-1, 1)>>,     \* not empty, bin values cancel
      <<Bin(1, 1), Bin(2, 2)>> }

RECURSIVE SumValues(_)
\* sum(h.values())
SumValues(h) ==
    IF Len(h) = 0 THEN Num(0) ELSE FAdd(h[1].value, SumValues(Tail(h)))

\* the extensions the saving loop runs over
Exts == <<".png", ".pdf">>

NoPlot ==
    [outcome |-> "none", savename |-> <<>>, v_h |-> <<>>, v_label |-> <<>>,
     v_file |-> <<>>, panels |-> 0, main |-> <<>>, ratios |-> <<>>,
     saved |-> <<>>]

\* ValidPlotter.plotHistos with self.savedir = sd and the directories ds;
\* v_file names the file each histogram was read from
plotHistos(sd, ds, v_h, savename, v_label, v_file) ==
    LET call == [NoPlot EXCEPT !.savename = savename, !.v_h = v_h,
                               !.v_label = v_label, !.v_file = v_file]
        reference_hist == v_h[1]
        fname == sd \o savename \o <<".png">>
    IN  IF \A i \in 1..Len(v_h) : IsZero(SumValues(v_h[i]))
        THEN [call EXCEPT !.outcome = "skipped"]
        ELSE LET drawn ==
                   [call EXCEPT
                      !.panels = IF Len(v_h) > 1 THEN 2 ELSE 1,
                      !.main = v_label,
                      !.ratios =
                          [i \in 1..(Len(v_h) - 1) |->
                              [hist  |-> ratioHist(reference_hist, v_h[i + 1]),
                               label |-> v_label[i + 1] \o <<"/">> \o v_label[1]]]]
             IN  IF DirOf(fname) \in ds
                 THEN [drawn EXCEPT !.outcome = "saved",
                                    !.saved = [e \in 1..Len(Exts) |-> fname]]
                 ELSE [drawn EXCEPT !.outcome = "FileNotFoundError"]

---------------------------------------------------------------------------
(* The script: command line intake *)

FileName(i) == <<"f", Str(i)[1]>>

\* the --files strings: 1 to MaxFiles paths joined by commas
FilesArgs == {Join([i \in 1..n |-> FileName(i)], ",") : n \in 1..MaxFiles}

\* the --labels strings
LabelsArgs == UNION {[1..n -> {"x", ","}] : n \in 0..MaxLabelsLen}

\* the --odir strings
OdirArgs == {<<"o">>, <<"o", "/">>}

ArgsSet ==
    [files : FilesArgs, labels_given : {TRUE}, labels : LabelsArgs,
     tag : {<<"t">>}, odir_given : BOOLEAN, odir : OdirArgs]
    \cup
    [files : FilesArgs, labels_given : {FALSE}, labels : {<<>>},
     tag : {<<"t">>}, odir_given : BOOLEAN, odir : OdirArgs]

\* a Python string option used as a condition: None and "" are false
Truthy(given, s) == given /\ s # <<>>

\* labels = [f"File_{i}" for i in range(len(files))]
DefaultLabels(fs) == [i \in 1..Len(fs) |-> <<"File_">> \o Str(i - 1)]

\* the count check with "at least as many labels as files"
CountsMatchAtLeast(fs, ls) == Len(fs) <= Len(ls)

\* assert len(files) == len(labels)
CountsMatch(fs, ls) == Len(fs) = Len(ls)

NoCall == [st |-> "none"]

InitDirs == Prefixes(Components(cwd))

Init ==
    /\ pc = "start"
    /\ args \in {a \in ArgsSet : a.odir_given \/ a.odir = <<"o">>}
    /\ files = <<>>
    /\ labels = <<>>
    /\ opened = <<>>
    /\ dqm_paths = <<>>
    /\ histos = <<>>
    /\ savedir = <<>>
    /\ dirs = InitDirs
    /\ coll_i = 0
    /\ name_i = 0
    /\ lastPlot = NoPlot
    /\ rcall = NoCall
    /\ ecall = NoCall

\* lines 314-320
ParseArgs ==
    /\ pc = "start"
    /\ files' = IF Contains(args.files, ",") THEN Split(args.files, ",")
                ELSE <<args.files>>
    /\ labels' = IF Truthy(args.labels_given, args.labels)
                 THEN IF Contains(args.labels, ",") THEN Split(args.labels, ",")
                      ELSE <<args.labels>>
                 ELSE DefaultLabels(files')
    /\ pc' = "parsed"
    /\ UNCHANGED <<args, opened, dqm_paths, histos, savedir, dirs, coll_i,
                   name_i, lastPlot, rcall, ecall>>

\* line 322
CheckCounts ==
    /\ pc = "parsed"
    /\ pc' = IF CountsMatch(files, labels) THEN "track_open" ELSE "aborted"
    /\ UNCHANGED <<args, files, labels, opened, dqm_paths, histos, savedir,
                   dirs, coll_i, name_i, lastPlot, rcall, ecall>>

---------------------------------------------------------------------------
(* The script: the two validation passes *)

RECURSIVE DictKeys(_)
DictKeys(d) == IF Len(d) = 0 THEN <<>> ELSE <<d[1].label>> \o DictKeys(Tail(d))

\* d[label] = file on an insertion-ordered dict
DictSet(d, label, file) ==
    IF \E i \in 1..Len(d) : d[i].label = label
    THEN [i \in 1..Len(d) |->
            IF d[i].label = label THEN [label |-> label, file |-> file] ELSE d[i]]
    ELSE Append(d, [label |-> label, file |-> file])

RECURSIVE FillDict(_, _, _)
\* for file, label in zip(files, labels): dqm_paths[label] = file
FillDict(d, fs, ls) ==
    IF Len(fs) = 0 \/ Len(ls) = 0 THEN d
    ELSE FillDict(DictSet(d, ls[1], fs[1]), Tail(fs), Tail(ls))

\* the loop that opens the files and fills dqm_paths and dqm_files, and the
\* loops that read the histograms of every key with to_hist(): a file holds
\* one of SampleHists, the same under every name of the pass
OpenFiles(next) ==
    /\ dqm_paths' = FillDict(<<>>, files, labels)
    /\ histos' \in [1..Len(dqm_paths') -> SampleHists]
    /\ opened' = opened \o SubSeq(files, 1, IF Len(files) < Len(labels)
                                            THEN Len(files) ELSE Len(labels))
    /\ pc' = next
    /\ UNCHANGED <<args, files, labels, savedir, dirs, coll_i, name_i,
                   lastPlot, rcall, ecall>>

\* plotter = ValidPlotter(tag, odir)
MakePlotter(next) ==
    /\ savedir' = Savedir(args.odir_given, args.odir, args.tag)
    /\ dirs' = makedir(dirs, savedir')
    /\ name_i' = 1
    /\ pc' = next
    /\ UNCHANGED <<args, files, labels, opened, dqm_paths, histos, coll_i,
                   lastPlot, rcall, ecall>>

\* one plotter.plotHistos call of a pass: v_histos and v_labels are built
\* from the keys of dqm_paths
PlotCall(savename) ==
    lastPlot' = plotHistos(savedir, dirs, histos, savename, DictKeys(dqm_paths),
                           [i \in 1..Len(dqm_paths) |-> dqm_paths[i].file])

\* one iteration of the loop over names_level0
PlotLevel0(here, names, next) ==
    /\ PlotCall(names[name_i])
    /\ IF lastPlot'.outcome = "FileNotFoundError"
       THEN pc' = "raised" /\ UNCHANGED <<coll_i, name_i>>
       ELSE IF name_i < Len(names)
       THEN pc' = here /\ name_i' = name_i + 1 /\ UNCHANGED coll_i
       ELSE pc' = next /\ name_i' = 0 /\ coll_i' = 1
    /\ UNCHANGED <<args, files, labels, opened, dqm_paths, histos, savedir,
                   dirs, rcall, ecall>>

\* makedir(os.path.join(plotter.savedir, coll))
MakeCollDir(colls, next) ==
    /\ dirs' = makedir(dirs, PathJoin(savedir, colls[coll_i]))
    /\ name_i' = 1
    /\ pc' = next
    /\ UNCHANGED <<args, files, labels, opened, dqm_paths, histos, savedir,
                   coll_i, lastPlot, rcall, ecall>>

\* one iteration of the loop over the nested names of collection coll_i
PlotNested(here, colls, names, colldir, next) ==
    /\ PlotCall(colls[coll_i] \o <<"/">> \o names[name_i])
    /\ IF lastPlot'.outcome = "FileNotFoundError"
       THEN pc' = "raised" /\ UNCHANGED <<coll_i, name_i>>
       ELSE IF name_i < Len(names)
       THEN pc' = here /\ name_i' = name_i + 1 /\ UNCHANGED coll_i
       ELSE IF coll_i < Len(colls)
       THEN pc' = colldir /\ name_i' = 0 /\ coll_i' = coll_i + 1
       ELSE pc' = next /\ name_i' = 0 /\ coll_i' = 0
    /\ UNCHANGED <<args, files, labels, opened, dqm_paths, histos, savedir,
                   dirs, rcall, ecall>>

\* trackReleaseValidation, lines 224-249
TrackOpen ==
    /\ pc = "track_open"
    /\ OpenFiles("track_plotter")

\* trackReleaseValidation, line 251
TrackMakePlotter ==
    /\ pc = "track_plotter"
    /\ MakePlotter("track_level0")

\* trackReleaseValidation, lines 252-258
TrackPlotLevel0 ==
    /\ pc = "track_level0"
    /\ PlotLevel0("track_level0", trackNamesLevel0, "track_colldir")

\* trackReleaseValidation, lines 290-291
TrackMakeCollDir ==
    /\ pc = "track_colldir"
    /\ MakeCollDir(trackCollections, "track_nested")

\* trackReleaseValidation, lines 292-300
TrackPlotNested ==
    /\ pc = "track_nested"
    /\ PlotNested("track_nested", trackCollections,
                  trackNamesNested(trackCollections[coll_i]),
                  "track_colldir", "hgcal_open")

\* hgcalReleaseValidation, lines 136-162 and 200-204
HgcalOpen ==
    /\ pc = "hgcal_open"
    /\ OpenFiles("hgcal_plotter")

\* hgcalReleaseValidation, line 164
HgcalMakePlotter ==
    /\ pc = "hgcal_plotter"
    /\ MakePlotter("hgcal_level0")

\* hgcalReleaseValidation, lines 165-171
HgcalPlotLevel0 ==
    /\ pc = "hgcal_level0"
    /\ PlotLevel0("hgcal_level0", hgcalNamesLevel0, "hgcal_colldir")

\* hgcalReleaseValidation, lines 206-207
HgcalMakeCollDir ==
    /\ pc = "hgcal_colldir"
    /\ MakeCollDir(hgcalCollections, "hgcal_nested")

\* hgcalReleaseValidation, lines 208-216
HgcalPlotNested ==
    /\ pc = "hgcal_nested"
    /\ PlotNested("hgcal_nested", hgcalCollections,
                  hgcalNamesNested(hgcalCollections[coll_i]),
                  "hgcal_colldir", "done")

Next ==
    \/ ParseArgs
    \/ CheckCounts
    \/ TrackOpen
    \/ TrackMakePlotter
    \/ TrackPlotLevel0
    \/ TrackMakeCollDir
    \/ TrackPlotNested
    \/ HgcalOpen
    \/ HgcalMakePlotter
    \/ HgcalPlotLevel0
    \/ HgcalMakeCollDir
    \/ HgcalPlotNested

Spec == Init /\ [][Next]_vars

---------------------------------------------------------------------------
(* ValidPlotter.ratioHist called on its own *)

IdleRun ==
    /\ pc = "idle"
    /\ args = [files |-> <<>>, labels_given |-> FALSE, labels |-> <<>>,
               tag |-> <<>>, odir_given |-> FALSE, odir |-> <<>>]
    /\ files = <<>>
    /\ labels = <<>>
    /\ opened = <<>>
    /\ dqm_paths = <<>>
    /\ histos = <<>>
    /\ savedir = <<>>
    /\ dirs = InitDirs
    /\ coll_i = 0
    /\ name_i = 0
    /\ lastPlot = NoPlot

InitRatio ==
    /\ IdleRun
    /\ rcall \in [st : {"call"}, num : HistSet, den : HistSet, out : {<<>>}]
    /\ ecall = NoCall

\* hratio = plotter.ratioHist(num, den)
RatioHistCall ==
    /\ rcall.st = "call"
    /\ rcall' = [rcall EXCEPT !.st = "returned",
                              !.out = ratioHist(rcall.num, rcall.den)]
    /\ UNCHANGED <<runVars, ecall>>

NextRatio == RatioHistCall

SpecRatio == InitRatio /\ [][NextRatio]_vars

---------------------------------------------------------------------------
(* getEfficiency called on its own *)

\* the names bound at module level: the imports, _all_, the functions and
\* the class
ModuleNames ==
    {"_all_", "os", "np", "uproot", "ak", "hist", "plt", "mpl", "hep",
     "collections", "argparse", "makedir", "ValidPlotter", "getEfficiency",
     "hgcalReleaseValidation", "trackReleaseValidation"}

\* the Python builtins getEfficiency uses
Builtins == {"zip", "int"}

\* evaluating a global name inside a function
Lookup(name) ==
    IF name \in ModuleNames \cup Builtins THEN "bound" ELSE "NameError"

CountSeqs(n) == [1..n -> 0..MaxCount]

InitEff ==
    /\ IdleRun
    /\ rcall = NoCall
    /\ \E n \in 0..MaxLen :
          ecall \in [st : {"loop"}, passing : CountSeqs(n), total : CountSeqs(n),
                     i : {1}, yEff : {<<>>}, yEffErrUp : {<<>>},
                     yEffErrLow : {<<>>}, result : {<<>>}]

\* len(list(zip(passing, total)))
ZipLen(a, b) == IF Len(a) < Len(b) THEN Len(a) ELSE Len(b)

\* lines 118, 125-128: an iteration with yTot > 0 false
EffIterZero ==
    /\ ecall.st = "loop"
    /\ ecall.i <= ZipLen(ecall.passing, ecall.total)
    /\ ~(ecall.total[ecall.i] > 0)
    /\ ecall' = [ecall EXCEPT !.yEff = Append(@, 0),
                              !.yEffErrLow = Append(@, 0),
                              !.yEffErrUp = Append(@, 0),
                              !.i = @ + 1]
    /\ UNCHANGED <<runVars, rcall>>

\* lines 118-121: an iteration with yTot > 0 evaluates the name binomtest
EffIterPositive ==
    /\ ecall.st = "loop"
    /\ ecall.i <= ZipLen(ecall.passing, ecall.total)
    /\ ecall.total[ecall.i] > 0
    /\ Lookup("binomtest") = "NameError"
    /\ ecall' = [ecall EXCEPT !.st = "NameError"]
    /\ UNCHANGED <<runVars, rcall>>

\* line 129
EffReturn ==
    /\ ecall.st = "loop"
    /\ ecall.i > ZipLen(ecall.passing, ecall.total)
    /\ ecall' = [ecall EXCEPT !.st = "returned",
                              !.result = <<ecall.yEff, ecall.yEffErrLow,
                                           ecall.yEffErrUp>>]
    /\ UNCHANGED <<runVars, rcall>>

NextEff ==
    \/ EffIterZero
    \/ EffIterPositive
    \/ EffReturn

SpecEff == InitEff /\ [][NextEff]_vars

---------------------------------------------------------------------------
(* Properties *)

RatioReturned == rcall.st = "returned"

\* C1, as stated: ratioHist returns, and at every bin whose denominator
\* value is 0 the returned bin value is 0.
C1_ZeroDenominatorBinIsZero ==
    RatioReturned =>
        \A b \in DOMAIN rcall.den :
            IsZero(rcall.den[b].value) => rcall.out[b].value = Num(0)

\* C1, amended: ratioHist never raises, and at every bin whose denominator
\* value is 0 the returned bin value is NaN when the numerator value is 0
\* too, and the infinity with the numerator's sign otherwise.
C1_ZeroDenominatorBinIsNaNOrInf ==
    /\ rcall.st \in {"call", "returned"}
    /\ RatioReturned =>
          \A b \in DOMAIN rcall.den :
              IsZero(rcall.den[b].value) =>
                  rcall.out[b].value =
                      IF rcall.num[b].value.n = 0 THEN NaN
                      ELSE IF rcall.num[b].value.n > 0 THEN Inf(1)
                      ELSE Inf(-1)

C1_Witness ==
    /\ RatioReturned
    /\ \E b \in DOMAIN rcall.den :
          IsZero(rcall.den[b].value) /\ rcall.num[b].value.n # 0
    /\ \E b \in DOMAIN rcall.den : rcall.out[b].value.k = "inf"

\* C2, as stated: ratioHist(h, h) has value 1 and variance 0 at every bin
\* where the value of h is not 0, whatever the variance of the bin.
C2_SelfRatioVarianceIsZero ==
    (RatioReturned /\ rcall.num = rcall.den) =>
        \A b \in DOMAIN rcall.den :
            ~IsZero(rcall.den[b].value) =>
                /\ rcall.out[b].value = Num(1)
                /\ rcall.out[b].variance = Num(0)

\* C2, amended: ratioHist(h, h) has value 1 at every bin where the value v
\* of h is not 0, and there the variance is sqrt(2) * |w / v| for the bin's
\* variance w: its square is 2 * w^2 / v^2, and it is 0 exactly when w is 0.
C2_SelfRatioVarianceIsSqrt2RelVar ==
    (RatioReturned /\ rcall.num = rcall.den) =>
        \A b \in DOMAIN rcall.den :
            ~IsZero(rcall.den[b].value) =>
                LET v == rcall.den[b].value.n
                    w == rcall.den[b].variance.n
                    out == rcall.out[b]
                IN  /\ out.value = Num(1)
                    /\ out.variance.k \in {"fin", "root"}
                    /\ FSq(out.variance) = Fin(2 * w * w, v * v)
                    /\ (IsZero(out.variance) <=> w = 0)

C2_Witness ==
    /\ RatioReturned
    /\ rcall.num = rcall.den
    /\ \E b \in DOMAIN rcall.den :
          /\ ~IsZero(rcall.den[b].value)
          /\ ~IsZero(rcall.den[b].variance)
          /\ ~IsZero(rcall.out[b].variance)

\* a plotHistos call that got past the empty check and drew its curves
Drawn == lastPlot.outcome \in {"saved", "FileNotFoundError"}

\* C3: in a drawn plot of more than one histogram, the ratio curve of
\* histogram i has the values v_h[i] / v_h[0] that its legend entry
\* "<label_i>/<label_0>" announces.
C3_RatioCurveIsHistOverReference ==
    Drawn =>
        \A i \in 1..Len(lastPlot.ratios) :
            /\ lastPlot.ratios[i].label =
                  lastPlot.v_label[i + 1] \o <<"/">> \o lastPlot.v_label[1]
            /\ values(lastPlot.ratios[i].hist) =
                  Div(values(lastPlot.v_h[i + 1]), values(lastPlot.v_h[1]))

\* C4: a run that passed the count check with N files builds every drawn
\* plot from N histograms, one per file in order, and draws N - 1 ratio
\* curves; with N = 1 there is one panel and no ratio curve.
C4_OneHistogramPerFile ==
    Drawn =>
        /\ Len(lastPlot.v_h) = Len(files)
        /\ lastPlot.v_file = files
        /\ Len(lastPlot.ratios) = Len(files) - 1
        /\ Len(files) = 1 => (lastPlot.panels = 1 /\ lastPlot.ratios = <<>>)

\* every bin of every histogram is zero
AllBinsZero(v_h) ==
    \A i \in 1..Len(v_h) : \A b \in 1..Len(v_h[i]) : IsZero(v_h[i][b].value)

\* C5: a plotHistos call writes no image exactly when every bin of every
\* histogram is zero; otherwise the histograms are drawn and an image is
\* written; a skipped call does not raise.
C5_NoImageIffAllBinsZero ==
    lastPlot.outcome # "none" =>
        /\ (lastPlot.saved = <<>>) <=> AllBinsZero(lastPlot.v_h)
        /\ AllBinsZero(lastPlot.v_h) => lastPlot.outcome = "skipped"
        /\ ~AllBinsZero(lastPlot.v_h) => (lastPlot.panels > 0 /\ lastPlot.main # <<>>)

\* directory p is directory q or lies above it
IsPrefix(p, q) == Len(p) <= Len(q) /\ SubSeq(q, 1, Len(p)) = p

\* <odir or cwd>/Plots_<tag>/
PlotsTagDir ==
    AbsPath(PathJoin(IF args.odir_given THEN args.odir ELSE cwd,
                     <<"Plots_">> \o args.tag))

\* C6: every image written lies in <odir or cwd>/Plots_<tag>/ or a
\* directory below it, and that directory exists.
C6_ImagesUnderPlotsTagDir ==
    \A e \in 1..Len(lastPlot.saved) :
        /\ IsPrefix(PlotsTagDir, DirOf(lastPlot.saved[e]))
        /\ DirOf(lastPlot.saved[e]) \in dirs

PastCheck == pc \notin {"start", "parsed"}

NothingDone ==
    /\ opened = <<>>
    /\ dirs = InitDirs
    /\ savedir = <<>>
    /\ lastPlot = NoPlot

\* the number of comma-separated items of an option string
CommaCount(s) == Cardinality({i \in 1..Len(s) : s[i] = ","}) + 1

\* C7, as stated: whenever --labels is given with a number of labels other
\* than the number of files the run aborts with nothing opened, created or
\* written; when --labels is absent the labels are File_<index> and the run
\* does not abort.
C7_GivenLabelsMismatchAborts ==
    /\ (PastCheck /\ args.labels_given
            /\ CommaCount(args.labels) # CommaCount(args.files))
          => (pc = "aborted" /\ NothingDone)
    /\ (pc # "start" /\ ~args.labels_given)
          => /\ pc # "aborted"
             /\ labels = [i \in 1..CommaCount(args.files) |-> <<"File_">> \o Str(i - 1)]

\* C7, amended: whenever --labels is given and not the empty string, with a
\* number of labels other than the number of files, the run aborts with
\* nothing opened, created or written, and it aborts in no other case; when
\* --labels is absent or the empty string the labels are File_<index> and the
\* run does not abort.
C7_NonEmptyLabelsMismatchAborts ==
    /\ (PastCheck /\ args.labels_given /\ args.labels # <<>>
            /\ CommaCount(args.labels) # CommaCount(args.files))
          => (pc = "aborted" /\ NothingDone)
    /\ pc = "aborted"
          => /\ NothingDone
             /\ args.labels_given
             /\ CommaCount(args.labels) # CommaCount(args.files)
    /\ (pc # "start" /\ (~args.labels_given \/ args.labels = <<>>))
          => /\ pc # "aborted"
             /\ labels = [i \in 1..CommaCount(args.files) |-> <<"File_">> \o Str(i - 1)]

C7_Witness ==
    /\ pc = "aborted"
    /\ args.labels_given
    /\ Len(labels) > Len(files)

\* C8: every plotHistos call that is not skipped writes <savename>.png and
\* <savename>.pdf in the output directory.
C8_PngAndPdfWritten ==
    Drawn =>
        /\ \E e \in 1..Len(lastPlot.saved) :
              lastPlot.saved[e] = savedir \o lastPlot.savename \o <<".png">>
        /\ \E e \in 1..Len(lastPlot.saved) :
              lastPlot.saved[e] = savedir \o lastPlot.savename \o <<".pdf">>

EffFinished == ecall.st # "loop"

\* C9: getEfficiency returns three sequences as long as its inputs, with
\* 0 in all three at every bin whose total is 0, whatever the passing count.
C9_ReturnsThreeSequencesZeroAtZeroTotal ==
    EffFinished =>
        /\ ecall.st = "returned"
        /\ Len(ecall.result) = 3
        /\ \A k \in 1..3 : Len(ecall.result[k]) = Len(ecall.total)
        /\ \A i \in 1..Len(ecall.total) :
              ecall.total[i] = 0 => \A k \in 1..3 : ecall.result[k][i] = 0

\* C10: at every bin with total > 0 and 0 <= passing <= total getEfficiency
\* returns normally, with lower bound <= estimate <= upper bound.
C10_EstimateWithinInterval ==
    (EffFinished /\ \E i \in 1..Len(ecall.total) :
                        ecall.total[i] > 0 /\ ecall.passing[i] <= ecall.total[i])
        => /\ ecall.st = "returned"
           /\ \A i \in 1..Len(ecall.total) :
                 (ecall.total[i] > 0 /\ ecall.passing[i] <= ecall.total[i])
                     => /\ ecall.result[2][i] <= ecall.result[1][i]
                        /\ ecall.result[1][i] <= ecall.result[3][i]

===========================================================================
